---- MODULE Spec2Model ----
(***************************************************************************)
(* WaveletBPMDetector (src/src/wavelet_bpm_detector.h) and the ALSA        *)
(* capture set-up audio_data (src/audio_data.cpp) as state machines.       *)
(*                                                                         *)
(* Numbers.  The code computes in IEEE doubles; the model computes in      *)
(* exact integers on a fixed-point grid, so rounding of the last bit is    *)
(* not modelled.  A coefficient c stands for the real c / Denom.           *)
(* normalize divides by the vector length n, so its result is kept as the  *)
(* numerator over Denom * n; correlate multiplies two such values, so its  *)
(* result is the numerator over (Denom * n)^2.  detectPeak only compares,  *)
(* negates and takes absolute values, so any order- and sign-preserving    *)
(* encoding of its input is exact for it.                                  *)
(***************************************************************************)
EXTENDS Integers, Sequences, FiniteSets, TLC

VARIABLES
    sampleRate,   \* WaveletBPMDetector::sampleRate
    instantBpm,   \* the collection the doc comment of computeWindowBpm names
    proc,         \* "running", or "aborted" once undefined behaviour killed it
    call,         \* what the last computeWindowBpm call did
    returned,     \* observer: the values returned so far, in call order
    peakIn,       \* detectPeak under test: its argument
    peakOut,      \* detectPeak under test: its result
    usData,       \* undersample under test: its data argument
    usPace,       \* undersample under test: its pace argument
    usOut,        \* undersample under test: what the call did
    audio         \* audio_data: the object under construction and the process

vars == <<sampleRate, instantBpm, proc, call, returned,
          peakIn, peakOut, usData, usPace, usOut, audio>>

detectorVars == <<sampleRate, instantBpm, proc, call, returned>>
peakVars == <<peakIn, peakOut>>
usVars == <<usData, usPace, usOut>>
audioVars == <<audio>>

-----------------------------------------------------------------------------
(* Bounds of the model. *)

\* Fixed-point denominator of the wavelet coefficients.
Denom == 2
\* Longest envelope (window length / 16) the windows of the model give.
MaxEnvLen == 6
\* Sample rates of the model are 8, 16, ..., 8 * MaxRateMult.
MaxRateMult == 4
\* Magnitude of a value read from outside a vector.
GarbageMag == 50
\* detectPeak under test: longest argument and largest magnitude.
MaxPeakLen == 3
MaxPeakVal == 3
\* undersample under test: longest argument.
MaxDataLen == 6
\* Calls observed by the specification that records the returned values.
MaxCalls == 3

-----------------------------------------------------------------------------
(* Arithmetic helpers. *)

Abs(x) == IF x < 0 THEN -x ELSE x

Max(a, b) == IF a < b THEN b ELSE a

\* C++ conversion of a real quotient a / b (b > 0) to int: toward zero.
TruncDiv(a, b) == IF a >= 0 THEN a \div b ELSE -((-a) \div b)

RECURSIVE Pow2(_)
Pow2(k) == IF k = 0 THEN 1 ELSE 2 * Pow2(k - 1)

-----------------------------------------------------------------------------
(* The private helpers of WaveletBPMDetector, as operators on sequences.   *)
(* C++ index i is TLA+ index i + 1.                                        *)

\* DBL_MIN, the smallest positive normal double, on the grid detectPeak's
\* argument is encoded on: 1 is a subnormal, 2 is DBL_MIN.
DblMin == 2

RECURSIVE MaxAbs(_, _)
\* for (double x : data) max = std::max(max, std::abs(x));
MaxAbs(data, max) ==
    IF data = << >> THEN max
    ELSE MaxAbs(Tail(data), Max(max, Abs(Head(data))))

RECURSIVE FirstEq(_, _, _)
\* for (i = from; i < size; ++i) if (data[i] == v) return i;   else -1
FirstEq(data, v, from) ==
    IF from > Len(data) THEN -1
    ELSE IF data[from] = v THEN from - 1
    ELSE FirstEq(data, v, from + 1)

\* detectPeak: max starts at DBL_MIN; the first index holding max, else the
\* first index holding -max, else -1.
detectPeak(data) ==
    LET max == MaxAbs(data, DblMin)
        pos == FirstEq(data, max, 1)
    IN  IF pos # -1 THEN pos ELSE FirstEq(data, -max, 1)

\* undersample: result has length / pace elements, all 0.0; the loop runs
\* i over [0, length) and stores data[i] at result[i].  The stores with
\* i >= length / pace land outside result.
undersample(data, pace) ==
    LET length == Len(data)
        size == length \div pace
    IN  [result  |-> [i \in 1..size |-> data[i]],
         written |-> 0..(length - 1),
         size    |-> size]

\* abs: every value replaced by its absolute value.
abs(data) == [i \in 1..Len(data) |-> Abs(data[i])]

RECURSIVE accumulate(_, _)
\* std::accumulate(begin, end, 0): the accumulator is an int, so each
\* partial sum init + *it is converted to int.
accumulate(data, init) ==
    IF data = << >> THEN init
    ELSE accumulate(Tail(data), TruncDiv(init * Denom + Head(data), Denom))

\* normalize: value -= mean, mean = accumulate / size.  The result is the
\* numerator over Denom * size.
normalize(data) ==
    LET n == Len(data)
        sum == accumulate(data, 0)
    IN  [i \in 1..n |-> data[i] * n - sum * Denom]

\* add: data[i] += plus[i] for every i < data.size().
add(data, plus) == [i \in 1..Len(data) |-> data[i] + plus[i]]

RECURSIVE SumTerms(_, _, _)
SumTerms(data, k, i) ==
    IF k + i > Len(data) + 1 THEN 0
    ELSE data[i] * data[k - 1 + i] + SumTerms(data, k, i + 1)

\* correlate: correlation[k] = sum over i with k + i < n of data[i]*data[k+i].
correlate(data) == [k \in 1..Len(data) |-> SumTerms(data, k, 1)]

-----------------------------------------------------------------------------
(* Windows and their wavelet transform.                                    *)
(*                                                                         *)
(* Daubechies8::decompose (daubechies8.h) is not among the sources.  Its   *)
(* filter arithmetic is left uninterpreted: a window of the model is       *)
(* identified by its length and by the coefficients its transform holds,   *)
(* so decompose is a function of the window.  The windows of the model     *)
(* are silence and the windows whose transform is zero but for one or two  *)
(* coefficients of equal amplitude amp in one band, at indices p <= q with *)
(* p one of the first two.                                                 *)

\* int levels = 4;
levels == 4

\* maxDecimation = pace = exp2(levels - 1)
maxDecimation == Pow2(levels - 1)

\* Shortest window that 4 halvings leave non-empty.
MinWindow == Pow2(levels)

EnvLens == {e \in {1, MaxEnvLen - 1, MaxEnvLen} : e >= 1}

Bands == {[part |-> "detail", level |-> l] : l \in 1..levels}
           \cup {[part |-> "approx", level |-> levels]}

Amps == {-(Denom + 1), Denom}

Silence(n) == [len |-> n, band |-> [part |-> "detail", level |-> 1],
               p |-> 0, q |-> 0, amp |-> 0]

ShortWindows == {Silence(n) : n \in {0, MinWindow - 1}}

LongWindows ==
    {Silence(MinWindow * e) : e \in EnvLens}
      \cup {[len |-> MinWindow * e, band |-> b, p |-> p, q |-> q, amp |-> a] :
              e \in EnvLens, b \in Bands, p \in 0..1,
              q \in 0..(MaxEnvLen - 1), a \in Amps}

Windows == ShortWindows
             \cup {w \in LongWindows : w.p <= w.q /\ w.q < w.len \div MinWindow}

\* The coefficient of band (part, level) at C++ index i.
Coef(w, part, level, i) ==
    IF w.band = [part |-> part, level |-> level] /\ i \in {w.p, w.q}
    THEN w.amp ELSE 0

InsufficientData == "InsufficientData"

\* decompose fails on a window that 4 halvings would empty.
decomposeFails(w) == w.len < MinWindow

\* decompose(data, levels): per level the pair (first = approximation,
\* second = detail), each half as long as the level's input.
decompose(w) ==
    IF decomposeFails(w) THEN << >>
    ELSE [l \in 1..levels |->
            [first  |-> [i \in 1..(w.len \div Pow2(l)) |->
                            Coef(w, "approx", l, i - 1)],
             second |-> [i \in 1..(w.len \div Pow2(l)) |->
                            Coef(w, "detail", l, i - 1)]]]

-----------------------------------------------------------------------------
(* computeWindowBpm, step by step. *)

\* Sample rates are whole numbers of Hz; for those of the model the double
\* expressions below and the exact quotients agree.
\* minIndex = (int)(60.0 / 220.0 * sampleRate / maxDecimation)
minIndex(rate) == (60 * rate) \div (220 * maxDecimation)

\* maxIndex with 30 BPM as the slowest tempo.
maxIndexThirty(rate) == (60 * rate) \div (30 * maxDecimation)

\* maxIndex = (int)(60.0 / 40.0 * sampleRate / maxDecimation)
maxIndex(rate) == (60 * rate) \div (40 * maxDecimation)

\* pace at loop iteration loop (0-based): exp2(levels - 1) >> loop
paceAt(loop) == Pow2(levels - 1 - loop)

\* The undersample call of iteration loop.
undersampled(decomp, loop) == undersample(decomp[loop + 1].second, paceAt(loop))

\* dC of iteration loop: undersample, abs, normalize.
envelope(decomp, loop) == normalize(abs(undersampled(decomp, loop).result))

RECURSIVE sumLoop(_, _, _)
\* loop == 0: dCSum = dC;  otherwise add(dCSum, dC).  The dCMinLength
\* zeros dCSum is constructed with are replaced at loop == 0.
sumLoop(decomp, loop, dCSum) ==
    IF loop = levels THEN dCSum
    ELSE sumLoop(decomp, loop + 1,
                 IF loop = 0 THEN envelope(decomp, loop)
                 ELSE add(dCSum, envelope(decomp, loop)))

\* dCSum after the loop and after add(dCSum, aC), aC the normalized
\* absolute last approximation.
composite(decomp) ==
    add(sumLoop(decomp, 0, << >>), normalize(abs(decomp[levels].first)))

\* Some undersample call of the loop stores outside its result.
heapOverrun(decomp) ==
    \E loop \in 0..(levels - 1) :
        LET u == undersampled(decomp, loop)
        IN  \E i \in u.written : i >= u.size

\* The values a read outside a vector can give.
Garbage == {-GarbageMag, 0, GarbageMag}

\* The indices of [minIndex, maxIndex) past the end of a vector of length n.
outside(rate, n) == {k \in minIndex(rate)..(maxIndex(rate) - 1) : k >= n}

\* correlatedTmp(correlated.begin() + minIndex, correlated.begin() + maxIndex),
\* fill giving the value read at each index outside correlated.
slice(correlated, rate, fill) ==
    [j \in 1..(maxIndex(rate) - minIndex(rate)) |->
        LET k == minIndex(rate) + j - 1
        IN  IF k < Len(correlated) THEN correlated[k + 1] ELSE fill[k]]

\* correlatedTmp on the grid of detectPeak: every non-zero value of the
\* pipeline is far above DBL_MIN.
onPeakGrid(data) == [i \in 1..Len(data) |-> data[i] * (DblMin + 1)]

\* return 60.0 / realLocation * (sampleRate / maxDecimation), kept as the
\* fraction num / den; den = 0 is the division by zero.
bpm(rate, realLocation) ==
    [num |-> 60 * rate, den |-> realLocation * maxDecimation]

NoValue == [num |-> 0, den |-> 0]

NoCall == [outcome |-> "none", window |-> Silence(0), overrun |-> FALSE,
           sliced |-> FALSE, minIndex |-> 0, maxIndex |-> 0, corrLen |-> 0,
           location |-> 0, realLocation |-> 0, ret |-> NoValue]

\* correlated, for each window decompose accepts (evaluated once).
correlatedOf ==
    [w \in {x \in Windows : ~decomposeFails(x)} |->
        correlate(composite(decompose(w)))]

\* The call that returned, fill giving the values read outside correlated.
returning(w, rate, fill) ==
    LET correlated == correlatedOf[w]
        location == detectPeak(onPeakGrid(slice(correlated, rate, fill)))
        realLocation == minIndex(rate) + location
    IN  [outcome |-> "returned", window |-> w,
         overrun |-> heapOverrun(decompose(w)), sliced |-> TRUE,
         minIndex |-> minIndex(rate), maxIndex |-> maxIndex(rate),
         corrLen |-> Len(correlated),
         location |-> location, realLocation |-> realLocation,
         ret |-> bpm(rate, realLocation)]

\* The call that undefined behaviour ended, before or at the slice.
aborting(w, rate, atSlice) ==
    [NoCall EXCEPT !.outcome = "aborted", !.window = w,
                   !.overrun = heapOverrun(decompose(w)), !.sliced = atSlice,
                   !.minIndex = IF atSlice THEN minIndex(rate) ELSE 0,
                   !.maxIndex = IF atSlice THEN maxIndex(rate) ELSE 0,
                   !.corrLen = IF atSlice THEN Len(correlatedOf[w]) ELSE 0]

\* A call that swallows the failure of decompose and returns a value.
failingCaught(w) == [NoCall EXCEPT !.outcome = "returned", !.window = w]

\* The call on which decompose failed: nothing in computeWindowBpm catches
\* the failure, so it leaves the call before anything else ran.
failing(w) == [NoCall EXCEPT !.outcome = InsufficientData, !.window = w]

\* Everything one call of computeWindowBpm can do on window w at rate.
outcomes(w, rate) ==
    IF decomposeFails(w) THEN {failing(w)}
    ELSE \* a store outside the result of undersample ends the process
         (IF heapOverrun(decompose(w))
          THEN {aborting(w, rate, FALSE)} ELSE {})
         \* the slice reads outside correlated and that ends the process
         \cup (IF outside(rate, Len(correlatedOf[w])) # {}
               THEN {aborting(w, rate, TRUE)} ELSE {})
         \* the call returns
         \cup {returning(w, rate, fill) :
                fill \in [outside(rate, Len(correlatedOf[w])) -> Garbage]}

Rates == {maxDecimation * k : k \in 1..MaxRateMult}

\* outcomes, for each rate and window (evaluated once).
outcomesOf == [rate \in Rates, w \in Windows |-> outcomes(w, rate)]

\* double computeWindowBpm(std::vector<double>& data)
\* The code stores nothing in the detector: sampleRate is only read, and no
\* statement pushes the value anywhere.
computeWindowBpm(data) ==
    /\ proc = "running"
    /\ \E c \in outcomesOf[sampleRate, data] :
          /\ call' = c
          /\ proc' = IF c.outcome = "aborted" THEN "aborted" ELSE proc
    /\ UNCHANGED <<sampleRate, instantBpm>>


\* WaveletBPMDetector(double rate) { sampleRate = rate; }
InitDetector ==
    /\ sampleRate \in Rates
    /\ instantBpm = << >>
    /\ proc = "running"
    /\ call = NoCall
    /\ returned = << >>

-----------------------------------------------------------------------------
(* detectPeak and undersample on their own. *)

PeakVals == (-MaxPeakVal)..MaxPeakVal

PeakInputs == UNION {[1..n -> PeakVals] : n \in 0..MaxPeakLen}

NoPeak == [done |-> FALSE, location |-> -1]

InitPeak == peakIn \in PeakInputs /\ peakOut = NoPeak

\* int location = detectPeak(correlatedTmp);
RunDetectPeak ==
    /\ ~peakOut.done
    /\ peakOut' = [done |-> TRUE, location |-> detectPeak(peakIn)]
    /\ UNCHANGED peakIn

\* The paces computeWindowBpm passes: 8, 4, 2, 1.
Paces == {paceAt(loop) : loop \in 0..(levels - 1)}

UsInputs == UNION {[1..n -> {0, 1}] : n \in 0..MaxDataLen}
              \cup {[i \in 1..n |-> i] : n \in 1..MaxDataLen}

NoUndersample == [state |-> "idle", result |-> << >>, written |-> {}]

InitUndersample ==
    /\ usData \in UsInputs
    /\ usPace \in Paces
    /\ usOut = NoUndersample

\* dC = undersample(decomp[loop].second, pace);
\* A store outside result either ends the process or goes unnoticed.
RunUndersample ==
    /\ usOut.state = "idle"
    /\ LET u == undersample(usData, usPace)
       IN  \/ /\ \E i \in u.written : i >= u.size
              /\ usOut' = [state |-> "aborted", result |-> << >>,
                           written |-> u.written]
           \/ usOut' = [state |-> "returned", result |-> u.result,
                        written |-> u.written]
    /\ UNCHANGED <<usData, usPace>>

-----------------------------------------------------------------------------
(* audio_data::audio_data() and ~audio_data(), one step per ALSA call      *)
(* whose answer the constructor tests.  An ALSA call answers 0 or a        *)
(* negative error code.                                                    *)

\* Error codes are -1 .. -MaxErrno.
MaxErrno == 3
Answers == {0} \cup {-e : e \in 1..MaxErrno}

\* exit(EXIT_FAILURE)
EXIT_FAILURE == 1

\* The formats snd_pcm_hw_params_get_format can answer, by sample width;
\* 0 stands for the formats the switch has no case for.
PcmFormats ==
    {[name |-> "S8", bits |-> 8], [name |-> "U8", bits |-> 8],
     [name |-> "S16_LE", bits |-> 16], [name |-> "S16_BE", bits |-> 16],
     [name |-> "U16_LE", bits |-> 16], [name |-> "U16_BE", bits |-> 16],
     [name |-> "S24_LE", bits |-> 24], [name |-> "S24_BE", bits |-> 24],
     [name |-> "U24_LE", bits |-> 24], [name |-> "U24_BE", bits |-> 24],
     [name |-> "S32_LE", bits |-> 32], [name |-> "S32_BE", bits |-> 32],
     [name |-> "U32_LE", bits |-> 32], [name |-> "U32_BE", bits |-> 32],
     [name |-> "FLOAT_LE", bits |-> 0]}

\* What the device can grant for the rate 44100, the period 256 and the
\* 2 channels asked for.
GrantedRates == {0, 44100, 48000}
GrantedFrames == {128, 256}
GrantedChannels == {1, 2}

\* The members before the constructor body runs: format -1 and rate 0 are
\* the values line 87 tests for.
InitAudio ==
    audio = [pc |-> "open", err |-> 0, exited |-> FALSE, exitStatus |-> 0,
             result |-> "none", open |-> FALSE, pcm_format |-> "S16_LE",
             format |-> -1, rate |-> 0, frames |-> 0, channels |-> 0]

\* fprintf(stderr, ...); exit(EXIT_FAILURE);
exitFailure(a, err) ==
    [a EXCEPT !.pc = "exited", !.err = err,
              !.exited = TRUE, !.exitStatus = EXIT_FAILURE]

\* err = snd_pcm_open(&handle, ...); if (err < 0) exit
OpenDevice ==
    /\ audio.pc = "open"
    /\ \E err \in Answers :
          audio' = IF err < 0 THEN exitFailure(audio, err)
                   ELSE [audio EXCEPT !.pc = "hw_params", !.open = TRUE]

\* the snd_pcm_hw_params_set_* calls, whose answers are dropped, then
\* err = snd_pcm_hw_params(handle, params); if (err < 0) exit
SetHwParams ==
    /\ audio.pc = "hw_params"
    /\ \E err \in Answers :
          audio' = IF err < 0 THEN exitFailure(audio, err)
                   ELSE [audio EXCEPT !.pc = "prepare"]

\* err = snd_pcm_prepare(handle); if (err < 0) exit
Prepare ==
    /\ audio.pc = "prepare"
    /\ \E err \in Answers :
          audio' = IF err < 0 THEN exitFailure(audio, err)
                   ELSE [audio EXCEPT !.pc = "query"]

\* get_format and the switch, get_rate, get_period_size, get_channels,
\* then if (format == -1 || rate == 0) exit
QueryParams ==
    /\ audio.pc = "query"
    /\ \E f \in PcmFormats, r \in GrantedRates,
          n \in GrantedFrames, c \in GrantedChannels :
          LET a == [audio EXCEPT
                      !.pcm_format = f.name,
                      !.format = IF f.bits = 0 THEN audio.format ELSE f.bits,
                      !.rate = r, !.frames = n, !.channels = c]
          IN  audio' = IF a.format = -1 \/ a.rate = 0
                       THEN exitFailure(a, a.err)
                       ELSE [a EXCEPT !.pc = "constructed", !.result = "ok"]

\* audio_data::~audio_data() { snd_pcm_close(handle); }
Destroy ==
    /\ audio.pc = "constructed"
    /\ audio' = [audio EXCEPT !.pc = "destroyed", !.open = FALSE]

-----------------------------------------------------------------------------
(* Specifications. *)

IdleDetector ==
    /\ sampleRate = maxDecimation
    /\ instantBpm = << >>
    /\ proc = "running"
    /\ call = NoCall
    /\ returned = << >>

IdlePeak == peakIn = << >> /\ peakOut = NoPeak

IdleUndersample == usData = << >> /\ usPace = 1 /\ usOut = NoUndersample

IdleAudio == audio = [pc |-> "idle"]

\* The detector: any window, any number of calls.
Init == InitDetector /\ IdlePeak /\ IdleUndersample /\ IdleAudio

Call == \E data \in Windows : computeWindowBpm(data)

Next == Call /\ UNCHANGED <<returned, peakVars, usVars, audioVars>>

Spec == Init /\ [][Next]_vars

\* The detector with an observer that records what every call returned,
\* over the windows with one or two coefficients in the first detail band.
HistoryWindows ==
    {w \in Windows : w.amp \in {0, Denom} /\ w.band.level = 1 /\ w.p = 0}

ObservedCall ==
    /\ Len(returned) < MaxCalls
    /\ \E data \in HistoryWindows : computeWindowBpm(data)
    /\ returned' = IF call'.outcome = "returned"
                   THEN Append(returned, call'.ret) ELSE returned

NextHistory == ObservedCall /\ UNCHANGED <<peakVars, usVars, audioVars>>

SpecHistory == Init /\ [][NextHistory]_vars

\* detectPeak on every short sequence.
InitPeakOnly == IdleDetector /\ InitPeak /\ IdleUndersample /\ IdleAudio

NextPeak == RunDetectPeak /\ UNCHANGED <<detectorVars, usVars, audioVars>>

SpecPeak == InitPeakOnly /\ [][NextPeak]_vars

\* undersample on every short sequence.
InitUndersampleOnly == IdleDetector /\ IdlePeak /\ InitUndersample /\ IdleAudio

NextUndersample ==
    RunUndersample /\ UNCHANGED <<detectorVars, peakVars, audioVars>>

SpecUndersample == InitUndersampleOnly /\ [][NextUndersample]_vars

\* The construction and destruction of one audio_data.
InitAudioOnly == IdleDetector /\ IdlePeak /\ IdleUndersample /\ InitAudio

AudioOnly == UNCHANGED <<detectorVars, peakVars, usVars>>

NextAudio ==
    \/ OpenDevice /\ AudioOnly
    \/ SetHwParams /\ AudioOnly
    \/ Prepare /\ AudioOnly
    \/ QueryParams /\ AudioOnly
    \/ Destroy /\ AudioOnly

SpecAudio == InitAudioOnly /\ [][NextAudio]_vars

-----------------------------------------------------------------------------
(* The properties. *)

\* C1: after any sequence of calls the history holds exactly the values the
\* calls returned, in call order.
C1_HistoryHoldsReturned == instantBpm = returned

\* C2: at the moment [minLag, maxLag) is sliced out of the correlation
\* sequence, 0 <= minLag < maxLag <= its length.
C2_LagBoundsInRange ==
    call.sliced =>
        /\ 0 <= call.minIndex
        /\ call.minIndex < call.maxIndex
        /\ call.maxIndex <= call.corrLen

\* C3: the lag the BPM conversion divides by is never 0: no call returns a
\* value at a sample rate with minLag < 1 (such a rate is rejected), and the
\* lag of every returned value is >= 1.
C3_LagAtLeastOne ==
    call.outcome = "returned" =>
        /\ call.minIndex >= 1
        /\ call.realLocation >= 1

\* C4: on a non-empty sequence detectPeak returns an index of the sequence,
\* never the not-found value -1.
C4_PeakFoundUnlessEmpty ==
    (peakOut.done /\ peakIn # << >>) =>
        (0 <= peakOut.location /\ peakOut.location < Len(peakIn))

\* The largest absolute value of a non-empty sequence.
LargestAbs(y) == CHOOSE m \in {Abs(y[k]) : k \in 1..Len(y)} :
                    \A k \in 1..Len(y) : Abs(y[k]) <= m

\* The smallest C++ index holding v.
SmallestIndexOf(y, v) ==
    (CHOOSE k \in 1..Len(y) : y[k] = v /\ \A j \in 1..(k - 1) : y[j] # v) - 1

\* C5: on a non-empty sequence y with m the largest |y[k]|, detectPeak
\* returns the smallest index holding m if there is one, and otherwise the
\* smallest index holding -m.
C5_PeakIsFirstPositiveElseFirstNegative ==
    (peakOut.done /\ peakIn # << >>) =>
        LET m == LargestAbs(peakIn)
        IN  peakOut.location =
              IF \E k \in 1..Len(peakIn) : peakIn[k] = m
              THEN SmallestIndexOf(peakIn, m)
              ELSE SmallestIndexOf(peakIn, -m)

C7_CallsIndependent ==
    [][/\ sampleRate' = sampleRate
       /\ (/\ call.outcome = "returned"
           /\ call'.outcome = "returned"
           /\ call'.window = call.window) => call'.ret = call.ret]_vars

\* C8: undersample by pace yields floor(len / pace) elements, the i-th being
\* data[i * pace], and stores nothing outside the result.
C8_StridedDecimation ==
    usOut.state # "idle" =>
        /\ usOut.state = "returned"
        /\ Len(usOut.result) = Len(usData) \div usPace
        /\ \A i \in 0..(Len(usOut.result) - 1) :
              usOut.result[i + 1] = usData[i * usPace + 1]
        /\ usOut.written \subseteq 0..(Len(usOut.result) - 1)

\* C9: a failure to open the device, to apply the hardware parameters or to
\* prepare the stream is returned to the caller as an error value and the
\* process goes on.
C9_SetupFailureReturned ==
    audio.err < 0 =>
        (~audio.exited /\ audio.result = "error")

\* C10 as claimed: at a rate with minLag >= 1 every returned value bpm
\* satisfies 40 <= bpm <= 220.
C10_BpmInTempoRange ==
    (call.outcome = "returned" /\ call.minIndex >= 1) =>
        /\ call.ret.den > 0
        /\ 40 * call.ret.den <= call.ret.num
        /\ call.ret.num <= 220 * call.ret.den

\* C10 as amended: at a rate with minLag >= 1 every returned value is
\* 60 / lag * (rate / 8) for a lag in [minLag - 1, maxLag - 1], and it is
\* above 40 (lag 0 gives +infinity); 220 does not bound it.
C10_BpmAboveForty ==
    (call.outcome = "returned" /\ call.minIndex >= 1) =>
        /\ call.realLocation >= minIndex(sampleRate) - 1
        /\ call.ret = bpm(sampleRate, call.realLocation)
        /\ call.ret.den >= 0
        /\ 40 * call.ret.den < call.ret.num

C10_Witness ==
    /\ call.outcome = "returned"
    /\ call.minIndex >= 1
    /\ call.location >= 0
    /\ call.maxIndex <= call.corrLen
    /\ call.ret.num > 220 * call.ret.den

====
